---- MODULE Spec2Model ----
(***************************************************************************)
(* The debounced job queue of the WhatsApp -> Chatbase bridge.             *)
(*                                                                         *)
(* Two job processors share the scheduled_jobs table: the job-queue        *)
(* library (scheduleOrDebounceJob / processReadyJobs / processJob, called   *)
(* from the Next.js routes) and the stand-alone backend worker             *)
(* (pollForJobs / processJob in backend/index.js).  Every await on the     *)
(* store or on an adapter is one atomic step, so the webhook handler, the  *)
(* poller, the block toggle and the clock interleave at those points.      *)
(*                                                                         *)
(* Time is counted in seconds.  Strings are sequences of tokens: one token *)
(* per inbound message text and the token NL for the newline character.    *)
(***************************************************************************)
EXTENDS Integers, Sequences, FiniteSets, TLC

\* ------------------------------------------------------------------ bounds
\* The clock runs freely up to MaxTime; after that it only advances as far
\* as a deadline that is still outstanding requires.
MaxTime == 1
\* Rows the scheduled_jobs table may hold.
MaxJobs == 2
\* Calls of scheduleOrDebounceJob in one behaviour.
MaxEnqueues == 2
\* Failures of the AI and the outbound adapter in one behaviour.
MaxFaults == 3
\* Uses of the block toggle in one behaviour.
MaxToggles == 1
\* Calls of POST /block in one behaviour of the block toggle on its own.
MaxPosts == 3
\* Rows of the largest scheduled_jobs table the selection is applied to.
SelMaxRows == 12
\* Distinct scheduled_for values in such a table.
SelKeys == 7

\* ------------------------------------------------------- program constants
MAX_ATTEMPTS == 3
\* parseInt(... || '3000') milliseconds
DefaultDebounceSec == 3
\* Math.pow(2, attempts) * 5 seconds
RetryBaseSec == 5
\* Date.now() + 5000 milliseconds
WorkerRetrySec == 5
\* .limit(10)
SelectLimit == 10

\* Values of the config key debounce_ms the store may hold (in seconds).
DebounceChoices == {DefaultDebounceSec, 6}

Users == {"u1", "u2"}
NL == "\n"
NoText == << >>
\* The text of the k-th inbound message.
MsgText(k) == << "m" \o ToString(k) >>

VARIABLES
    now,          \* Date.now(), in seconds
    debounce_ms,  \* config row debounce_ms (seconds)
    processor,    \* the job processor that is deployed: "lib" or "worker"
    faults,       \* adapter failures so far
    toggles,      \* uses of the block toggle so far
    jobs,         \* table scheduled_jobs; the row id is the index
    mappings,     \* table wa_id_mappings, one row (or none) per wa_id
    enq,          \* the webhook's call of scheduleOrDebounceJob in flight
    lastEnq,      \* how the last scheduleOrDebounceJob call ended
    calls,        \* per wa_id: the calls made so far, [text, at]
    poll,         \* the poller invocation in flight
    poll2,        \* a second poller invocation, waiting at an await
    aiCalls,      \* per job id: invocations of the AI query adapter
    sendCalls,    \* per job id: invocations of the outbound adapter
    event_logs,   \* table event_logs: entries per <<job id, event_type>>
    retryDelays,  \* per job id: the retry delays set so far, in order
    conversation_messages, \* table conversation_messages: rows per role,
                           \* counted for the job whose attempt wrote them
    blockResponse \* the answer of the last POST /block

vars == << now, debounce_ms, processor, faults, toggles, jobs, mappings,
           enq, lastEnq, calls, poll, poll2, aiCalls, sendCalls, event_logs,
           retryDelays, conversation_messages, blockResponse >>

JobIds == 1..MaxJobs
EventTypes == {"chatbase_response_sent", "job_completed", "job_failed",
               "job_retry", "job_skipped_blocked"}

\* ---------------------------------------------------------------- helpers
RECURSIVE Pow2(_)
Pow2(n) == IF n = 0 THEN 1 ELSE 2 * Pow2(n - 1)

\* fragments.join("\n")
RECURSIVE JoinNL(_)
JoinNL(frags) ==
    IF Len(frags) = 0 THEN NoText
    ELSE IF Len(frags) = 1 THEN frags[1]
    ELSE frags[1] \o << NL >> \o JoinNL(Tail(frags))

\* .eq('wa_id', waId).eq('status', 'pending')
PendingOf(u) ==
    { j \in 1..Len(jobs) : jobs[j].wa_id = u /\ jobs[j].status = "pending" }

\* .single(): the row when exactly one row matches, otherwise data is null
Single(S) == IF Cardinality(S) = 1 THEN CHOOSE j \in S : TRUE ELSE 0

\* The new fragment put in front of the stored content.
AppendContent_Prepended(existingContent, content) ==
    IF existingContent # NoText
    THEN content \o << NL >> \o existingContent
    ELSE content

\* existingContent ? `${existingContent}\n${content}` : content
AppendContent(existingContent, content) ==
    IF existingContent # NoText
    THEN existingContent \o << NL >> \o content
    ELSE content

\* processReadyJobs of the job-queue library, pollForJobs of the worker
Impls == {"lib", "worker"}

Terminal == {"completed", "failed", "skipped"}

IdleEnq == [pc |-> "idle", waId |-> "none", content |-> NoText,
            existingJob |-> 0, existingContent |-> NoText,
            scheduledFor |-> 0]

NoMapping == [exists |-> FALSE, blocked |-> FALSE, conv |-> "null",
              contact |-> "null", name |-> "null"]

\* A row of wa_id_mappings as the insert creates it (column defaults).
MappingDefaults == [NoMapping EXCEPT !.exists = TRUE]

\* contact?.profile?.name of the sender
ProfileName(u) == "name_" \o u

\* An upsert that writes a fresh row in place of the existing one.
UpsertMapping_Replace(row, updates) ==
    [f \in DOMAIN MappingDefaults |->
        IF f \in DOMAIN updates THEN updates[f] ELSE MappingDefaults[f]]

\* updateMapping: .upsert({wa_id, ...updates, updated_at},
\* {onConflict: 'wa_id'}) sets the supplied columns of the existing row,
\* or inserts a row with the defaults for the others.  (updated_at is not
\* modelled.)
UpsertMapping(row, updates) ==
    LET base == IF row.exists THEN row ELSE MappingDefaults
    IN  [f \in DOMAIN base |->
            IF f \in DOMAIN updates THEN updates[f] ELSE base[f]]

NoRow == [wa_id |-> "none", status |-> "none", scheduled_for |-> 0,
          content |-> NoText, attempts |-> 0, last_error |-> "null",
          enq_at |-> 0, retry_at |-> 0, delivered |-> 0]

NoJob == [id |-> 0, row |-> NoRow]

IdlePoll == [pc |-> "idle", impl |-> "none", queue |-> << >>,
             cur |-> NoJob, processed |-> 0, errors |-> 0,
             blockedAtStart |-> FALSE, err |-> "null", threw |-> FALSE,
             conversationId |-> "null"]

\* Three fields of a job row are not columns of scheduled_jobs: enq_at is
\* the time of the call that wrote the row last, retry_at the retry
\* deadline the catch block gave the job (0 when it waits for none),
\* delivered the number of replies the WhatsApp API has accepted for it.

NoMessages == [user |-> 0, assistant |-> 0]

\* No POST /block has been answered yet.
NoResponse == [waId |-> "none", blocked |-> FALSE]

\* ------------------------------------------------------------------- Init
Init ==
    /\ now = 0
    /\ debounce_ms \in DebounceChoices
    /\ processor \in Impls
    /\ faults = 0
    /\ toggles = 0
    /\ jobs = << >>
    /\ mappings = [u \in Users |-> NoMapping]
    /\ enq = IdleEnq
    /\ lastEnq = [result |-> "none", stored |-> "none", log |-> "none"]
    /\ calls = [u \in Users |-> << >>]
    /\ poll = IdlePoll
    /\ poll2 = IdlePoll
    /\ aiCalls = [j \in JobIds |-> 0]
    /\ sendCalls = [j \in JobIds |-> 0]
    /\ event_logs = [k \in JobIds \X EventTypes |-> 0]
    /\ retryDelays = [j \in JobIds |-> << >>]
    /\ conversation_messages = [j \in JobIds |-> NoMessages]
    /\ blockResponse = NoResponse

\* ------------------------------------------------------------- the clock
\* The deadlines that a Pending job, or the call in flight, still waits for.
OutstandingDeadlines ==
    { jobs[j].scheduled_for : j \in { k \in 1..Len(jobs) :
          jobs[k].status = "pending" /\ jobs[k].scheduled_for > now } }
    \cup { t \in {enq.scheduledFor} : enq.pc = "persist" /\ t > now }

\* Time passes: second by second up to MaxTime, from there on to the next
\* outstanding deadline.
Tick ==
    /\ \/ now < MaxTime /\ now' = now + 1
       \/ /\ now >= MaxTime
          /\ OutstandingDeadlines # {}
          /\ now' = CHOOSE t \in OutstandingDeadlines :
                       \A d \in OutstandingDeadlines : t <= d
    /\ UNCHANGED << blockResponse, poll2, conversation_messages, debounce_ms, processor, toggles, faults, jobs, mappings, enq, lastEnq, calls, poll,
                    aiCalls, sendCalls, event_logs, retryDelays >>

\* ------------------------------------------- webhook: handleIncomingMessage
NumCalls == Len(calls["u1"]) + Len(calls["u2"])

\* handleIncomingMessage fetches or inserts the mapping row and calls
\* scheduleOrDebounceJob, which looks for the existing pending job, reads
\* debounce_ms and computes scheduledFor from Date.now().  The write that
\* follows is a separate step (EnqPersist).
EnqCall(u, text) ==
    /\ enq.pc = "idle"
    /\ NumCalls < MaxEnqueues
    /\ Single(PendingOf(u)) # 0 \/ Len(jobs) < MaxJobs
    /\ mappings' = [mappings EXCEPT ![u] =
                       IF @.exists THEN [@ EXCEPT !.name = ProfileName(u)]
                       ELSE [MappingDefaults EXCEPT
                                !.name = ProfileName(u)]]
    /\ LET existingJob == Single(PendingOf(u))
       IN enq' = [pc |-> "persist", waId |-> u, content |-> text,
                  existingJob |-> existingJob,
                  existingContent |->
                      IF existingJob = 0 THEN NoText
                      ELSE jobs[existingJob].content,
                  scheduledFor |-> now + debounce_ms]
    /\ calls' = [calls EXCEPT ![u] =
                    Append(@, [text |-> text, at |-> now,
                               inWindow |-> FALSE])]
    /\ lastEnq' = [result |-> "none", stored |-> "none", log |-> "none"]
    /\ UNCHANGED << blockResponse, poll2, conversation_messages, now, debounce_ms, processor, toggles, faults, jobs, poll, aiCalls, sendCalls,
                    event_logs, retryDelays >>

NewJob(waId, scheduledFor, content, at) ==
    [wa_id |-> waId, status |-> "pending", scheduled_for |-> scheduledFor,
     content |-> content, attempts |-> 0, last_error |-> "null",
     enq_at |-> at, retry_at |-> 0, delivered |-> 0]

\* An update that also starts the retry count afresh.
DebounceUpdate_ResetAttempts(row, scheduledFor, newContent, at) ==
    [row EXCEPT !.scheduled_for = scheduledFor,
                !.content = newContent,
                !.enq_at = at,
                !.attempts = 0,
                !.last_error = "null"]

\* .update({scheduled_for, content, updated_at}).eq('id', existingJob.id)
DebounceUpdate(row, scheduledFor, newContent, at) ==
    [row EXCEPT !.scheduled_for = scheduledFor,
                !.content = newContent,
                !.enq_at = at]

\* The call in flight returns to the webhook handler; inWindow records
\* whether it returns before the window of the previous call has elapsed.
Returned ==
    LET cs == calls[enq.waId]
        k  == Len(cs)
    IN  [calls EXCEPT ![enq.waId][k].inWindow =
            (k = 1 \/ now < cs[k - 1].at + debounce_ms)]

\* scheduleOrDebounceJob: the update of the existing job or the insert of
\* a new one, and the return to the webhook handler.
EnqPersist ==
    /\ enq.pc = "persist"
    /\ LET at == enq.scheduledFor - debounce_ms
       IN IF enq.existingJob # 0
          THEN /\ jobs' = [jobs EXCEPT ![enq.existingJob] =
                             DebounceUpdate(@, enq.scheduledFor,
                                 AppendContent(enq.existingContent,
                                               enq.content), at)]
               /\ lastEnq' = [result |-> "returned", stored |-> "ok",
                              log |-> "debounced"]
          ELSE /\ jobs' = Append(jobs, NewJob(enq.waId, enq.scheduledFor,
                                              enq.content, at))
               /\ lastEnq' = [result |-> "returned", stored |-> "ok",
                              log |-> "created"]
    /\ enq' = IdleEnq
    /\ calls' = Returned
    /\ UNCHANGED << blockResponse, poll2, conversation_messages, now, debounce_ms, processor, toggles, faults, mappings,
                    poll, aiCalls, sendCalls, event_logs, retryDelays >>

\* The same step when the store rejects the write: the update's result is
\* not looked at, the insert's error is logged with console.error.
EnqPersistFail ==
    /\ enq.pc = "persist"
    /\ lastEnq' = [result |-> "returned", stored |-> "failed",
                   log |-> IF enq.existingJob # 0 THEN "debounced"
                           ELSE "error_create"]
    /\ enq' = IdleEnq
    /\ calls' = Returned
    /\ UNCHANGED << blockResponse, poll2, conversation_messages, now, debounce_ms, processor, toggles, faults, jobs,
                    mappings, poll, aiCalls, sendCalls, event_logs,
                    retryDelays >>

\* ------------------------------------------------- block toggle (POST)
\* mapping?.blocked ?? false: what GET /block returns and what POST negates
StoredBlocked(row) == IF row.exists THEN row.blocked ELSE FALSE

\* .update({ blocked: newStatus, updated_at }).eq('wa_id', waId) changes
\* the row when there is one; without a row it matches nothing and
\* reports no error.
UpdateBlocked(row, newStatus) ==
    IF row.exists THEN [row EXCEPT !.blocked = newStatus] ELSE row

\* POST /block: reads the flag, writes its negation and answers
\* { blocked: newStatus }.
PostBlock(u, max) ==
    /\ toggles < max
    /\ toggles' = toggles + 1
    /\ LET newStatus == ~StoredBlocked(mappings[u])
       IN /\ mappings' = [mappings EXCEPT ![u] = UpdateBlocked(@, newStatus)]
          /\ blockResponse' = [waId |-> u, blocked |-> newStatus]
    /\ UNCHANGED << poll2, conversation_messages, now, debounce_ms, processor, faults, jobs, enq, lastEnq, calls, poll,
                    aiCalls, sendCalls, event_logs, retryDelays >>

\* The dashboard toggles the block of a contact it lists.
ToggleBlock(u) == mappings[u].exists /\ PostBlock(u, MaxToggles)

\* ------------------------------------------------------------ the poller

\* A job whose deadline is the present instant is not selected.
Selectable_StrictlyBefore(row, t) ==
    row.status = "pending" /\ row.scheduled_for < t

\* A selection that also takes up the jobs left in processing.
Selectable_WithProcessing(row, t) ==
    row.status \in {"pending", "processing"} /\ row.scheduled_for <= t

\* .eq('status', 'pending').lte('scheduled_for', now)
Selectable(row, t) == row.status = "pending" /\ row.scheduled_for <= t

ReadyJobs(t) == { j \in 1..Len(jobs) : Selectable(jobs[j], t) }

\* .order('scheduled_for', { ascending: true }): every order of the rows
\* that is ascending in scheduled_for (the order of equal keys is not
\* determined by the query).
RECURSIVE Ordered(_)
Ordered(S) ==
    IF S = {} THEN { << >> }
    ELSE UNION { { << [id |-> j, row |-> jobs[j]] >> \o q :
                     q \in Ordered(S \ {j}) } :
                 j \in { k \in S : \A m \in S :
                           jobs[k].scheduled_for <= jobs[m].scheduled_for } }

\* The last rows of the ordered result instead of the first.
Limit_Last(q) ==
    IF Len(q) <= SelectLimit THEN q
    ELSE SubSeq(q, Len(q) - SelectLimit + 1, Len(q))

\* .limit(10)
Limit(q) == IF Len(q) <= SelectLimit THEN q ELSE SubSeq(q, 1, SelectLimit)

\* processReadyJobs / pollForJobs: now is read and the ready jobs are
\* selected.
PollStart ==
    /\ poll.pc = "idle"
    /\ \E q \in Ordered(ReadyJobs(now)) :
          poll' = [IdlePoll EXCEPT !.pc = "loop", !.impl = processor,
                                   !.queue = Limit(q)]
    /\ UNCHANGED << blockResponse, poll2, conversation_messages, now, debounce_ms, processor, toggles, faults, jobs, mappings, enq, lastEnq, calls,
                    aiCalls, sendCalls, event_logs, retryDelays >>

\* The loop is done: the invocation returns { processed, errors }.
PollReturn ==
    /\ poll.pc = "loop"
    /\ poll.queue = << >>
    /\ poll' = IdlePoll
    /\ UNCHANGED << blockResponse, poll2, conversation_messages, now, debounce_ms, processor, toggles, faults, jobs, mappings, enq, lastEnq, calls,
                    aiCalls, sendCalls, event_logs, retryDelays >>

LogEvent(type) ==
    event_logs' = [event_logs EXCEPT ![<< poll.cur.id, type >>] = @ + 1]

IsBlocked(u) == mappings[u].exists /\ mappings[u].blocked

\* The worker's processJob checks the block flag before anything else; the
\* library's processJob has no such check.
ChecksBlock(impl) == impl = "worker"

\* A content check that lets every job through.
HasContent_Always(content) == TRUE

\* if (!content) throw ...: null and the empty string have no content
HasContent(content) == content # NoText

\* A loop that starts processJob for the next job without awaiting the
\* one before.
AwaitsJob_FireAndForget(pc) == pc # "idle"

\* await processJob(job): the loop body is entered again only when the
\* call for the job before has returned or thrown.
AwaitsJob(pc) == pc = "loop"

\* for (const job of jobs): the next job enters processJob.  A blocked
\* user's job is skipped by the worker; otherwise the job is marked as
\* processing (.update({status}).eq('id', job.id)) and its content is
\* checked.
StartJob ==
    /\ AwaitsJob(poll.pc)
    /\ poll.queue # << >>
    /\ LET job == Head(poll.queue)
           blocked == IsBlocked(job.row.wa_id)
           next == [poll EXCEPT !.cur = job, !.queue = Tail(poll.queue),
                                !.blockedAtStart = blocked,
                                !.err = "null", !.threw = FALSE,
                                !.conversationId = "null"]
       IN IF ChecksBlock(poll.impl) /\ blocked
          THEN /\ jobs' = [jobs EXCEPT ![job.id] =
                             [@ EXCEPT !.status = "skipped",
                                       !.last_error = "User is blocked"]]
               /\ event_logs' = [event_logs EXCEPT
                                   ![<< job.id, "job_skipped_blocked" >>] =
                                       @ + 1]
               /\ poll' = [next EXCEPT !.pc = "loop"]
          ELSE /\ jobs' = [jobs EXCEPT ![job.id] =
                             [@ EXCEPT !.status = "processing",
                                       !.retry_at = 0]]
               /\ UNCHANGED event_logs
               /\ poll' = IF HasContent(job.row.content)
                          THEN [next EXCEPT !.pc = "query"]
                          ELSE [next EXCEPT !.pc = "catch",
                                            !.err = "No message content"]
    /\ UNCHANGED << blockResponse, poll2, conversation_messages, now, debounce_ms, processor, toggles, faults, mappings, enq, lastEnq, calls,
                    aiCalls, sendCalls, retryDelays >>

\* The conversation id the mapping holds when the AI query is sent:
\* the library passes the stored one, the worker generates
\* wa_<waId>_<Date.now()> and stores it when there is none.
ConvBeforeQuery(impl, conv) ==
    IF impl = "worker" /\ conv = "null" THEN "wa_generated" ELSE conv

\* conversationId of the adapter's result:
\* data.conversationId || conversationId || ''
AnswerConv(answer, sent) ==
    IF answer = "ok_with_id" THEN "chatbase_id" ELSE sent

\* The library stores the result's conversationId when it is non-empty and
\* differs from the mapping's; the worker only logs it.
ConvAfterQuery(impl, conv, answer) ==
    IF impl = "lib" THEN AnswerConv(answer, conv) ELSE conv

AiAnswers == {"ok_with_id", "fail"}

\* queryChatbaseWithConversation of the library keeps the conversation in
\* conversation_messages; the worker's queryChatbase keeps no history.
SavesHistory(impl) == impl = "lib"

\* saveMessage(waId, 'user', userMessage) before the request is sent,
\* saveMessage(waId, 'assistant', assistantResponse) when it was answered.
SaveMessages(saved, answer) ==
    [user |-> saved.user + 1,
     assistant |-> IF answer = "fail" THEN saved.assistant
                   ELSE saved.assistant + 1]

\* processJob: the mapping lookup and the AI query
QueryAi(answer) ==
    /\ poll.pc = "query"
    /\ answer = "fail" => faults < MaxFaults
    /\ faults' = IF answer = "fail" THEN faults + 1 ELSE faults
    /\ aiCalls' = [aiCalls EXCEPT ![poll.cur.id] = @ + 1]
    /\ conversation_messages' =
          IF SavesHistory(poll.impl)
          THEN [conversation_messages EXCEPT
                   ![poll.cur.id] = SaveMessages(@, answer)]
          ELSE conversation_messages
    /\ LET u == poll.cur.row.wa_id
           row == mappings[u]
           \* library: getOrCreateMapping inserts the row when it is missing
           got == IF poll.impl = "lib" /\ ~row.exists
                  THEN MappingDefaults ELSE row
           \* worker: the Chatbase contact id is looked up and stored
           withContact ==
               IF poll.impl = "worker" /\ got.contact = "null"
               THEN UpsertMapping(got, [contact |-> "contact_id"])
               ELSE got
           before == ConvBeforeQuery(poll.impl, withContact.conv)
           withConv ==
               IF before # withContact.conv
               THEN UpsertMapping(withContact, [conv |-> before])
               ELSE withContact
           after == IF answer = "fail" THEN before
                    ELSE ConvAfterQuery(poll.impl, before, answer)
       IN mappings' = [mappings EXCEPT ![u] =
                         IF after # withConv.conv
                         THEN UpsertMapping(withConv, [conv |-> after])
                         ELSE withConv]
    /\ poll' = IF answer = "fail"
               THEN [poll EXCEPT !.pc = "catch",
                                 !.err = "Chatbase API error"]
               ELSE [poll EXCEPT
                       !.pc = "send",
                       !.conversationId =
                           AnswerConv(answer,
                               ConvBeforeQuery(poll.impl,
                                   mappings[poll.cur.row.wa_id].conv))]
    /\ UNCHANGED << blockResponse, poll2, now, debounce_ms, processor, toggles, jobs, enq, lastEnq, calls, sendCalls,
                    event_logs, retryDelays >>

\* How a call of sendWhatsAppMessage can end: the API accepts the message
\* and the adapter reports it; the API refuses or cannot be reached; the
\* API accepts the message (response.ok) and reading the response body
\* (response.json(), data.messages[0]) throws.
SendOutcomes == {"sent", "failed", "sent_unread"}

\* The message reached the user.
Delivered(outcome) == outcome \in {"sent", "sent_unread"}

\* The adapter returns normally ({success: true} in the library).
ReportsSuccess(outcome) == outcome = "sent"

\* processJob: sendWhatsAppMessage
SendReply(outcome) ==
    /\ poll.pc = "send"
    /\ ~ReportsSuccess(outcome) => faults < MaxFaults
    /\ faults' = IF ReportsSuccess(outcome) THEN faults ELSE faults + 1
    /\ sendCalls' = [sendCalls EXCEPT ![poll.cur.id] = @ + 1]
    /\ jobs' = [jobs EXCEPT ![poll.cur.id].delivered =
                   IF Delivered(outcome) THEN @ + 1 ELSE @]
    /\ poll' = IF ReportsSuccess(outcome)
               THEN [poll EXCEPT !.pc = "complete"]
               ELSE [poll EXCEPT !.pc = "catch",
                                 !.err = "Failed to send message"]
    /\ UNCHANGED << blockResponse, poll2, conversation_messages, now, debounce_ms, processor, toggles, mappings, enq, lastEnq, calls,
                    aiCalls, event_logs, retryDelays >>

\* processJob: the success event and "Mark job as completed"
Complete ==
    /\ poll.pc = "complete"
    /\ jobs' = [jobs EXCEPT ![poll.cur.id].status = "completed"]
    /\ LogEvent(IF poll.impl = "lib" THEN "chatbase_response_sent"
                ELSE "job_completed")
    /\ poll' = [poll EXCEPT !.pc = "loop",
                            !.processed = @ + 1]
    /\ UNCHANGED << blockResponse, poll2, conversation_messages, now, debounce_ms, processor, toggles, faults, mappings, enq, lastEnq, calls,
                    aiCalls, sendCalls, retryDelays >>

\* library: Math.pow(2, attempts) * 5 seconds; worker: 5000 ms
RetryDelay(impl, attempts) ==
    IF impl = "lib" THEN Pow2(attempts) * RetryBaseSec ELSE WorkerRetrySec

\* A retry too many: the comparison lets the job go back to Pending once
\* more after MAX_ATTEMPTS failures.
AttemptsExhausted_OffByOne(attempts) == attempts > MAX_ATTEMPTS

\* if (attempts >= MAX_ATTEMPTS)
AttemptsExhausted(attempts) == attempts >= MAX_ATTEMPTS

\* A catch block that swallows the error.
Rethrows_Never(impl) == FALSE

\* The library's processJob ends its catch block with "throw error".
Rethrows(impl) == impl = "lib"

\* The library's retry branch only writes to the console; the worker logs
\* job_retry.
LogsRetry(impl) == impl = "worker"

\* processJob: the catch block
CatchFailure ==
    /\ poll.pc = "catch"
    /\ LET attempts == poll.cur.row.attempts + 1
           id == poll.cur.id
       IN IF AttemptsExhausted(attempts)
          THEN /\ jobs' = [jobs EXCEPT ![id] =
                             [@ EXCEPT !.status = "failed",
                                       !.attempts = attempts,
                                       !.last_error = poll.err]]
               /\ LogEvent("job_failed")
               /\ UNCHANGED retryDelays
          ELSE /\ jobs' = [jobs EXCEPT ![id] =
                             [@ EXCEPT !.status = "pending",
                                       !.scheduled_for =
                                           now + RetryDelay(poll.impl,
                                                            attempts),
                                       !.retry_at =
                                           now + RetryDelay(poll.impl,
                                                            attempts),
                                       !.attempts = attempts,
                                       !.last_error = poll.err]]
               /\ IF LogsRetry(poll.impl)
                  THEN LogEvent("job_retry")
                  ELSE UNCHANGED event_logs
               /\ retryDelays' = [retryDelays EXCEPT ![id] =
                                    Append(@, RetryDelay(poll.impl,
                                                         attempts))]
    /\ poll' = [poll EXCEPT
                  !.pc = "loop",
                  !.threw = Rethrows(poll.impl),
                  !.errors = IF Rethrows(poll.impl) THEN @ + 1 ELSE @,
                  !.processed = IF Rethrows(poll.impl) THEN @ ELSE @ + 1]
    /\ UNCHANGED << blockResponse, poll2, conversation_messages, now, debounce_ms, processor, toggles, faults, mappings, enq, lastEnq, calls,
                    aiCalls, sendCalls >>

\* ----------------------------------------------------------- the system
\* An inbound message of some user; its text is empty or the next text.
Enqueue ==
    \E u \in Users : \E text \in {NoText, MsgText(NumCalls + 1)} :
        EnqCall(u, text)

Toggle == \E u \in Users : ToggleBlock(u)

Query == \E answer \in AiAnswers : QueryAi(answer)

\* The reply is delivered exactly when the adapter reports success.
Send == \E outcome \in {"sent", "failed"} : SendReply(outcome)

Next ==
    \/ Tick
    \/ Enqueue
    \/ EnqPersist
    \/ Toggle
    \/ PollStart
    \/ PollReturn
    \/ StartJob
    \/ Query
    \/ Send
    \/ Complete
    \/ CatchFailure

Spec == Init /\ [][Next]_vars

\* The store may reject the writes of scheduleOrDebounceJob.
FaultNext == Next \/ EnqPersistFail

FaultSpec == Init /\ [][FaultNext]_vars

\* The poller is invoked again and again, every adapter and store call
\* returns, and time passes.
Fairness ==
    /\ WF_vars(Tick)
    /\ WF_vars(EnqPersist)
    /\ WF_vars(PollStart)
    /\ WF_vars(PollReturn)
    /\ WF_vars(StartJob)
    /\ WF_vars(Query)
    /\ WF_vars(Send)
    /\ WF_vars(Complete)
    /\ WF_vars(CatchFailure)

\* The messages of one user, whom the dashboard may block.
LiveEnqueue ==
    \E text \in {NoText, MsgText(NumCalls + 1)} : EnqCall("u1", text)

LiveNext ==
    \/ Tick
    \/ LiveEnqueue
    \/ EnqPersist
    \/ Toggle
    \/ PollStart
    \/ PollReturn
    \/ StartJob
    \/ Query
    \/ Send
    \/ Complete
    \/ CatchFailure

\* The configuration as installed (debounce_ms = 3000).
LiveInit == Init /\ debounce_ms = DefaultDebounceSec

LiveSpec == LiveInit /\ [][LiveNext]_vars /\ Fairness

\* --------------------------------------------- overlapping invocations
\* Nothing keeps a second invocation of the poller from starting while
\* one is running (setInterval(pollForJobs, ...), useJobPoller in every
\* open dashboard, the "process now" route).  Of two invocations one runs
\* and the other waits at an await; Switch hands over between them.
Switch ==
    /\ poll' = poll2
    /\ poll2' = poll
    /\ poll # poll2
    /\ UNCHANGED << blockResponse, now, debounce_ms, processor, faults, toggles, jobs,
                    mappings, enq, lastEnq, calls, aiCalls, sendCalls,
                    event_logs, retryDelays, conversation_messages >>

\* One inbound message.
OverlapEnqueue == NumCalls = 0 /\ LiveEnqueue

OverlapNext ==
    \/ Tick
    \/ OverlapEnqueue
    \/ EnqPersist
    \/ PollStart
    \/ PollReturn
    \/ StartJob
    \/ Query
    \/ Send
    \/ Complete
    \/ CatchFailure
    \/ Switch

OverlapSpec == LiveInit /\ [][OverlapNext]_vars

\* ------------------------------------------ replies the adapter loses
\* The outbound adapter with all its outcomes.
DeliverySend == \E outcome \in SendOutcomes : SendReply(outcome)

DeliveryNext ==
    \/ Tick
    \/ LiveEnqueue
    \/ EnqPersist
    \/ Toggle
    \/ PollStart
    \/ PollReturn
    \/ StartJob
    \/ Query
    \/ DeliverySend
    \/ Complete
    \/ CatchFailure

DeliverySpec == LiveInit /\ [][DeliveryNext]_vars

\* ------------------------------------------- the block toggle on its own
\* POST /block takes any wa_id, whether wa_id_mappings has a row for it or
\* not; the webhook creates the row with the first inbound message.
Post == \E u \in Users : PostBlock(u, MaxPosts)

ToggleNext == Tick \/ Enqueue \/ EnqPersist \/ Post

ToggleSpec == Init /\ [][ToggleNext]_vars

\* ------------------------------------------------- interrupted processing
\* The process that runs the poller ends while an invocation is in flight
\* (process.on('SIGINT', ... process.exit(0)) of the worker, a request of
\* the route that is cut off): the invocation and its snapshot are gone,
\* the tables stay as they are.  The next invocation starts from idle.
Crash ==
    /\ poll.pc # "idle"
    /\ poll' = IdlePoll
    /\ UNCHANGED << blockResponse, poll2, conversation_messages, now, debounce_ms, processor, faults, toggles,
                    jobs, mappings, enq, lastEnq, calls, aiCalls,
                    sendCalls, event_logs, retryDelays >>

CrashNext == LiveNext \/ Crash

CrashSpec == LiveInit /\ [][CrashNext]_vars

\* ---------------------------------------- the selection on larger tables
\* A scheduled_jobs table of n rows, one job per user: row k is due at
\* (a * k + b) mod SelKeys, and every third row, from row c on, has the
\* status st instead of pending.
SelTable(n, a, b, c, st) ==
    [k \in 1..n |->
        [NoRow EXCEPT !.wa_id = "w" \o ToString(k),
                      !.status = IF k % 3 = c THEN st ELSE "pending",
                      !.scheduled_for = (a * k + b) % SelKeys,
                      !.content = MsgText(k)]]

SelInit ==
    /\ now \in 0..SelKeys
    /\ debounce_ms \in DebounceChoices
    /\ processor \in Impls
    /\ faults = 0
    /\ toggles = 0
    /\ \E n \in 0..SelMaxRows : \E a \in 1..3 : \E b \in 0..(SelKeys - 1) :
       \E c \in 0..3 : \E st \in {"processing", "completed", "failed"} :
          jobs = SelTable(n, a, b, c, st)
    /\ mappings = [u \in Users |-> NoMapping]
    /\ enq = IdleEnq
    /\ lastEnq = [result |-> "none", stored |-> "none", log |-> "none"]
    /\ calls = [u \in Users |-> << >>]
    /\ poll = IdlePoll
    /\ poll2 = IdlePoll
    /\ aiCalls = [j \in JobIds |-> 0]
    /\ sendCalls = [j \in JobIds |-> 0]
    /\ event_logs = [k \in JobIds \X EventTypes |-> 0]
    /\ retryDelays = [j \in JobIds |-> << >>]
    /\ conversation_messages = [j \in JobIds |-> NoMessages]
    /\ blockResponse = NoResponse

\* One invocation of the poller selects from the table.
SelectSpec == SelInit /\ [][PollStart]_vars

\* ------------------------------------------------------------ the claims
\* The fields of a job row (enq_at only records which call wrote last).
Fields(row) ==
    [status |-> row.status, content |-> row.content,
     scheduled_for |-> row.scheduled_for, attempts |-> row.attempts,
     last_error |-> row.last_error]

QueueIds == { poll.queue[i].id : i \in 1..Len(poll.queue) }

\* C1 - debounce invariant: in every reachable state there is at most one
\* job with status Pending per userId.
C1_AtMostOnePendingPerUser ==
    \A u \in Users : Cardinality(PendingOf(u)) <= 1

\* The calls for u so far have returned, each less than the debounce
\* window after the previous one was made.
Chained(u) ==
    /\ Len(calls[u]) >= 1
    /\ \A k \in 1..Len(calls[u]) : calls[u][k].inWindow

\* The window of the last call for u is still open.
WindowOpen(u) ==
    /\ enq.pc = "idle"
    /\ now < calls[u][Len(calls[u])].at + debounce_ms

Texts(u) == [k \in 1..Len(calls[u]) |-> calls[u][k].text]

\* The fragments from the first non-empty one on.
RECURSIVE FromFirstNonEmpty(_)
FromFirstNonEmpty(frags) ==
    IF Len(frags) = 0 THEN frags
    ELSE IF frags[1] # NoText THEN frags
    ELSE FromFirstNonEmpty(Tail(frags))

C3_WindowSliding ==
    /\ [](poll.pc = "query" => now >= poll.cur.row.enq_at + debounce_ms)
    /\ [][ (enq.pc = "persist" /\ enq.existingJob # 0 /\ enq'.pc = "idle")
           => jobs'[enq.existingJob].scheduled_for = enq.scheduledFor ]_vars

C5_BackoffMonotonic ==
    \A j \in JobIds : \A k \in 2..Len(retryDelays[j]) :
        /\ retryDelays[j][k] > retryDelays[j][k - 1]
        /\ retryDelays[j][k] = 2 * retryDelays[j][k - 1]

\* C6 - block short-circuit: a job that the poller takes up while its user
\* is blocked ends Skipped, with no AI adapter and no outbound adapter
\* call.
C6_BlockShortCircuit ==
    poll.blockedAtStart
        => /\ poll.pc = "loop"
           /\ jobs[poll.cur.id].status = "skipped"

\* C7 - terminal states are immutable: no operation changes a field of a
\* job that is Completed, Failed or Skipped, or calls an adapter for it.
C7_TerminalImmutable ==
    [][\A j \in 1..Len(jobs) :
          jobs[j].status \in Terminal
             => /\ Fields(jobs'[j]) = Fields(jobs[j])
                /\ aiCalls'[j] = aiCalls[j]
                /\ sendCalls'[j] = sendCalls[j]]_vars

\* C8 - every failure of a job is caught inside processJob, recorded in
\* the event log and turned into a state transition; no exception leaves
\* processJob.
C8_NoEscape ==
    /\ [](~poll.threw)
    /\ [][ (poll.pc = "catch" /\ poll'.pc = "loop")
           => event_logs' # event_logs ]_vars

\* C9 - scheduleOrDebounceJob never throws: when the write fails, on the
\* insert path or on the update path, the failure is logged and the call
\* returns normally.
C9_EnqueueSwallowsAndLogs ==
    lastEnq.stored = "failed"
        => /\ lastEnq.result = "returned"
           /\ lastEnq.log \in {"error_create", "error_update"}

\* C10 - eventual resolution: when the poller keeps being invoked, every
\* call returns and the enqueues stop, every job that was created reaches
\* a terminal status, and a job whose reply was sent ends Completed.
C10_EventualResolution ==
    \A j \in JobIds :
        /\ (Len(jobs) >= j)
              ~> (Len(jobs) >= j /\ jobs[j].status \in Terminal)
        /\ (poll.pc = "complete" /\ poll.cur.id = j)
              ~> (Len(jobs) >= j /\ jobs[j].status = "completed")

\* A job that was retried has ended Completed.
C10_Witness ==
    \E j \in 1..Len(jobs) :
        /\ jobs[j].status = "completed"
        /\ jobs[j].attempts >= 1

\* The ids of the jobs the invocation that starts in this step selects.
SelectedIds == { poll'.queue[i].id : i \in 1..Len(poll'.queue) }

\* C11 - ready-job selection: an invocation of the poller selects only
\* Pending jobs with scheduledFor <= now, each once, in ascending
\* scheduledFor order, as many as there are but at most SelectLimit, and
\* never passes over a ready job for one with a later scheduledFor.
C11_ReadySelection ==
    [][ (poll.pc = "idle" /\ poll'.pc = "loop")
        => LET sel == poll'.queue
               ready == { j \in 1..Len(jobs) :
                            /\ jobs[j].status = "pending"
                            /\ jobs[j].scheduled_for <= now }
           IN /\ SelectedIds \subseteq ready
              /\ \A i \in 1..Len(sel) : sel[i].row = jobs[sel[i].id]
              /\ \A i, k \in 1..Len(sel) :
                    /\ i < k => sel[i].row.scheduled_for
                                   <= sel[k].row.scheduled_for
                    /\ i # k => sel[i].id # sel[k].id
              /\ Len(sel) = IF Cardinality(ready) <= SelectLimit
                            THEN Cardinality(ready) ELSE SelectLimit
              /\ \A j \in ready \ SelectedIds : \A i \in 1..Len(sel) :
                    sel[i].row.scheduled_for <= jobs[j].scheduled_for
      ]_vars

\* More jobs are ready than one invocation takes, and SelectLimit of them
\* were selected.
C11_Witness ==
    /\ poll.pc = "loop"
    /\ Len(poll.queue) = SelectLimit
    /\ Cardinality({ j \in 1..Len(jobs) :
                       /\ jobs[j].status = "pending"
                       /\ jobs[j].scheduled_for <= now }) > SelectLimit

\* C12 - batch isolation: the invocation goes on with the remaining
\* selected jobs after a job failed and returns only when none is left;
\* in processReadyJobs every job that leaves processJob adds one to
\* processed + errors, to errors exactly when its attempt failed.
C12_BatchIsolation ==
    [][ /\ (poll.pc = "catch" /\ poll'.pc # "catch")
           => /\ poll'.pc = "loop"
              /\ poll'.queue = poll.queue
              /\ poll.impl = "lib"
                    => /\ poll'.errors = poll.errors + 1
                       /\ poll'.processed = poll.processed
        /\ (poll.pc = "complete" /\ poll'.pc # "complete")
           => /\ poll'.pc = "loop"
              /\ poll'.queue = poll.queue
              /\ poll.impl = "lib"
                    => /\ poll'.errors = poll.errors
                       /\ poll'.processed = poll.processed + 1
        /\ (poll.pc = "loop" /\ poll'.pc = "idle") => poll.queue = << >>
        /\ (poll.pc = "loop" /\ poll'.pc \notin {"loop", "idle"})
           => /\ poll.queue # << >>
              /\ poll'.cur = Head(poll.queue)
              /\ poll'.queue = Tail(poll.queue)
              /\ poll'.errors = poll.errors
              /\ poll'.processed = poll.processed
      ]_vars

\* processReadyJobs went through a batch of two jobs of which the first
\* failed and the second was delivered.
C12_Witness ==
    /\ poll.impl = "lib"
    /\ poll.pc = "loop"
    /\ poll.queue = << >>
    /\ poll.errors = 1
    /\ poll.processed = 1
    /\ jobs[poll.cur.id].status = "completed"

\* C13 - idempotent polling: two invocations of the poller, one after
\* the other or overlapping, execute no attempt of a job twice: a job has
\* seen at most one AI adapter call and one outbound send per attempt.
C13_IdempotentPolling ==
    \A j \in 1..Len(jobs) :
        /\ aiCalls[j] <= jobs[j].attempts + 1
        /\ sendCalls[j] <= jobs[j].attempts + 1

\* The step writes one entry of the given type for job j to the event log
\* and no other entry.
EmitsOnly(j, type) ==
    event_logs' = [event_logs EXCEPT ![<< j, type >>] = @ + 1]

\* C14 - event taxonomy: every transition of a job to Completed, to
\* Failed, back to Pending for a retry and to Skipped writes exactly one
\* event log entry for that job, of type job_completed, job_failed,
\* job_retry and job_skipped_blocked respectively.
C14_EventTaxonomy ==
    [][\A j \in 1..Len(jobs) :
          jobs'[j].status # jobs[j].status
             => /\ jobs'[j].status = "completed"
                      => EmitsOnly(j, "job_completed")
                /\ jobs'[j].status = "failed" => EmitsOnly(j, "job_failed")
                /\ jobs'[j].status = "pending" => EmitsOnly(j, "job_retry")
                /\ jobs'[j].status = "skipped"
                      => EmitsOnly(j, "job_skipped_blocked")]_vars

\* C15 - lazy conversation id: chatbase_conversation_id of a user's
\* mapping stays null until an AI adapter query for that user has
\* succeeded, so it leaves null only in a step in which such a query
\* returns its answer.
C15_LazyConversationId ==
    [][\A u \in Users :
          (mappings[u].conv = "null" /\ mappings'[u].conv # "null")
             => /\ poll.pc = "query"
                /\ poll.cur.row.wa_id = u
                /\ poll'.pc = "send"]_vars

\* C16 - merge semantics of the mapping upsert: a step of job processing
\* changes no mapping row but that of the job's user, and of that row
\* neither the blocked flag nor the name.
C16_UpsertMerges ==
    [][ (poll.pc \in {"query", "send", "complete", "catch"}
         /\ poll' # poll /\ poll'.cur = poll.cur)
        => \A u \in Users :
              /\ mappings'[u].blocked = mappings[u].blocked
              /\ mappings'[u].name = mappings[u].name
              /\ u # poll.cur.row.wa_id => mappings'[u] = mappings[u]
      ]_vars

\* The conversation id was stored in the row of a blocked user whose name
\* is known.
C16_Witness ==
    \E u \in Users :
        /\ mappings[u].blocked
        /\ mappings[u].name # "null"
        /\ mappings[u].conv # "null"
        /\ poll.pc \in {"send", "catch"}
        /\ poll.cur.row.wa_id = u

\* C17 - happy-path ordering: a job becomes Completed only at the end of
\* an attempt in which the AI query and then the outbound send succeeded;
\* the outbound adapter is called only after the AI query of the same
\* attempt succeeded; the AI query carries the full content of the job;
\* and a job completed by its first attempt has seen exactly one AI call
\* and one outbound send.
C17_HappyPathOrdering ==
    /\ [](\A j \in 1..Len(jobs) :
             (jobs[j].status = "completed" /\ jobs[j].attempts = 0)
                => (aiCalls[j] = 1 /\ sendCalls[j] = 1))
    /\ [](poll.pc = "query"
             => poll.cur.row.content = jobs[poll.cur.id].content)
    /\ [][\A j \in 1..Len(jobs) :
             /\ (jobs'[j].status = "completed" /\ jobs[j].status # "completed")
                   => (poll.pc = "complete" /\ poll.cur.id = j)
             /\ sendCalls'[j] # sendCalls[j]
                   => (poll.pc = "send" /\ poll.cur.id = j)
             /\ (poll'.pc = "complete" /\ poll.pc # "complete")
                   => (poll.pc = "send" /\ sendCalls' # sendCalls)
             /\ (poll'.pc = "send" /\ poll.pc # "send")
                   => (poll.pc = "query" /\ aiCalls' # aiCalls)]_vars

\* The status changes of the job state machine.
Transitions ==
    { << "pending", "processing" >>, << "pending", "skipped" >>,
      << "processing", "completed" >>, << "processing", "pending" >>,
      << "processing", "failed" >> }

\* C18 - status transitions: the status of a job changes only from
\* Pending to Processing or Skipped and from Processing to Completed,
\* Pending or Failed.
C18_StatusTransitions ==
    [][\A j \in 1..Len(jobs) :
          jobs'[j].status # jobs[j].status
             => << jobs[j].status, jobs'[j].status >> \in Transitions]_vars

\* C19 - block skip: when the poller takes up the job of a blocked user,
\* the job goes from Pending straight to Skipped, with attempts and
\* content unchanged and lastError "User is blocked"; a Skipped job keeps
\* its status and its attempts.
C19_BlockSkipFrame ==
    [][ /\ (poll.pc = "loop" /\ poll.queue # << >> /\ poll'.pc # "idle"
            /\ poll'.queue = Tail(poll.queue)
            /\ IsBlocked(Head(poll.queue).row.wa_id))
           => LET j == Head(poll.queue).id
              IN /\ jobs'[j].status = "skipped"
                 /\ jobs'[j].attempts = jobs[j].attempts
                 /\ jobs'[j].content = jobs[j].content
                 /\ jobs'[j].last_error = "User is blocked"
        /\ \A j \in 1..Len(jobs) :
              jobs[j].status = "skipped"
                 => /\ jobs'[j].status = "skipped"
                    /\ jobs'[j].attempts = jobs[j].attempts
      ]_vars

C21_AttemptsAccounting ==
    /\ [](\A j \in 1..Len(jobs) :
            /\ 0 <= jobs[j].attempts /\ jobs[j].attempts <= MAX_ATTEMPTS
            /\ jobs[j].status = "failed"
                  => jobs[j].attempts = MAX_ATTEMPTS
            /\ jobs[j].status \in {"pending", "processing", "completed"}
                  => jobs[j].attempts < MAX_ATTEMPTS)
    /\ [][\A j \in 1..Len(jobs) :
            jobs'[j].attempts =
                IF /\ poll.pc = "catch" /\ poll'.pc = "loop"
                   /\ poll2' = poll2 /\ poll.cur.id = j
                THEN jobs[j].attempts + 1
                ELSE jobs[j].attempts]_vars

Processing == { j \in 1..Len(jobs) : jobs[j].status = "processing" }

\* C22 - sequential processing: with a single active poller at most one
\* job is Processing at any time, it is the job the invocation is working
\* on, and a job is marked Processing only when no other job is
\* Processing, the selected jobs being taken in selection order.
C22_Sequential ==
    /\ [](/\ Cardinality(Processing) <= 1
          /\ \A j \in Processing :
                poll.cur.id = j /\ poll.pc \notin {"idle", "loop"})
    /\ [][\A j \in 1..Len(jobs) :
            (jobs'[j].status = "processing" /\ jobs[j].status # "processing")
               => /\ Processing = {}
                  /\ poll.queue # << >>
                  /\ Head(poll.queue).id = j
                  /\ poll'.queue = Tail(poll.queue)]_vars

\* The second job of a batch is Processing after the first has been
\* completed.
C22_Witness ==
    /\ poll.pc = "query"
    /\ poll.processed = 1
    /\ jobs[poll.cur.id].status = "processing"
    /\ \E j \in 1..Len(jobs) : j # poll.cur.id /\ jobs[j].status = "completed"

\* The job is Processing and no invocation is working on it.
Stuck(j) ==
    /\ jobs[j].status = "processing"
    /\ ~(poll.pc \notin {"idle", "loop"} /\ poll.cur.id = j)

C24_EnqueueFrame ==
    [][ enq' # enq
        => /\ aiCalls' = aiCalls /\ sendCalls' = sendCalls
           /\ poll' = poll /\ event_logs' = event_logs
           /\ Len(jobs') >= Len(jobs)
           /\ Cardinality({ j \in 1..Len(jobs') :
                              j > Len(jobs) \/ jobs'[j] # jobs[j] }) <= 1
           /\ \A j \in 1..Len(jobs) :
                 /\ jobs[j].wa_id # enq.waId => jobs'[j] = jobs[j]
                 /\ jobs'[j].wa_id = jobs[j].wa_id
                 /\ jobs'[j].status = jobs[j].status
                 /\ jobs'[j].attempts = jobs[j].attempts
                 /\ jobs'[j].last_error = jobs[j].last_error
           /\ \A j \in (Len(jobs) + 1)..Len(jobs') :
                 LET call == calls[enq.waId][Len(calls[enq.waId])]
                 IN /\ jobs'[j].wa_id = enq.waId
                    /\ jobs'[j].status = "pending"
                    /\ jobs'[j].attempts = 0
                    /\ jobs'[j].last_error = "null"
                    /\ jobs'[j].content = call.text
                    /\ jobs'[j].scheduled_for = call.at + debounce_ms
      ]_vars

\* A call was merged into a job that had failed once and waits for its
\* retry: the job has kept its attempts and its lastError.
C24_Witness ==
    /\ enq.pc = "idle"
    /\ lastEnq.log = "debounced"
    /\ \E j \in 1..Len(jobs) :
          /\ jobs[j].status = "pending"
          /\ jobs[j].attempts = 1
          /\ jobs[j].last_error # "null"
          /\ Len(calls[jobs[j].wa_id]) = 2
          /\ jobs[j].content = JoinNL(Texts(jobs[j].wa_id))
          /\ Len(jobs[j].content) = 3

\* C25 - conversation id persisted: after a successful AI query, from
\* before the outbound send on, chatbase_conversation_id of the user's
\* mapping is the conversationId that the query returned, in the library
\* and in the worker.
C25_ConversationIdPersisted ==
    poll.pc \in {"send", "complete"}
        => mappings[poll.cur.row.wa_id].conv = poll.conversationId

\* The message texts in a content.
Fragments(content) == { content[i] : i \in 1..Len(content) } \ {NL}

\* C26 - no lost fragment: every fragment in the content of a job that is
\* Completed was in the content passed to the AI adapter in the attempt
\* that completed it: no fragment is appended to the row after the poller
\* has read it, or after the job was completed, and so never sent.
C26_NoLostFragment ==
    [][\A j \in 1..Len(jobs) :
          jobs'[j].status = "completed"
             => Fragments(jobs'[j].content) \subseteq
                   IF jobs[j].status = "completed"
                   THEN Fragments(jobs[j].content)
                   ELSE Fragments(poll.cur.row.content)]_vars

\* C27 - backoff respected under new input: a job that was set back to
\* Pending for a retry is not selected by the poller before its retry
\* deadline (failure time + retry delay), whatever calls of
\* scheduleOrDebounceJob are made for its user in between.
C27_BackoffRespected ==
    [][ (poll.pc = "idle" /\ poll'.pc = "loop")
        => \A i \in 1..Len(poll'.queue) :
              poll'.queue[i].row.retry_at <= now ]_vars

\* C28 - no retry after delivery: with a single poller and no crash, the
\* attempt in which the reply of a job was delivered goes on to mark the
\* job Completed and not into the failure path, so at most one reply is
\* delivered per job.
C28_NoRetryAfterDelivery ==
    /\ [](\A j \in 1..Len(jobs) : jobs[j].delivered <= 1)
    /\ [][\A j \in 1..Len(jobs) :
             jobs'[j].delivered > jobs[j].delivered
                => poll'.pc = "complete"]_vars

\* C29 - history once per job: in the library processor the user message
\* of a job is inserted into conversation_messages at most once over all
\* attempts of the job, and an assistant message only in an attempt whose
\* AI query succeeded.
C29_HistoryOncePerJob ==
    /\ [](processor = "lib"
             => \A j \in JobIds : conversation_messages[j].user <= 1)
    /\ [][\A j \in JobIds :
             conversation_messages'[j].assistant
                   # conversation_messages[j].assistant
                => /\ poll.pc = "query" /\ poll.cur.id = j
                   /\ poll'.pc = "send"]_vars

\* C30 - block toggle consistency: for a user with or without a mapping
\* row, when POST /block has answered { blocked: b } the stored flag of
\* the user (what GET /block returns and the worker's block check reads)
\* is b, and it is the negation of the flag stored before, so that two
\* successive toggles restore the original value.
C30_ToggleConsistency ==
    [][ toggles' # toggles
        => LET u == blockResponse'.waId
           IN /\ StoredBlocked(mappings'[u]) = blockResponse'.blocked
              /\ (mappings'[u].exists /\ mappings'[u].blocked)
                    = blockResponse'.blocked
              /\ StoredBlocked(mappings'[u]) = ~StoredBlocked(mappings[u])
      ]_vars

====
